---- MODULE Spec2Model ----
(***************************************************************************)
(* Model of the night-time respiration fitting of nee_partition:           *)
(*   timeseries.get_window_data, respiration.fit_respiration,              *)
(*   respiration.find_temperature_sensitivity, respiration.create_models   *)
(*   and main.main.                                                        *)
(*                                                                         *)
(* Number representation.  Calendar dates are day numbers, timestamps are  *)
(* hours since day 0.  E0 is held in tenths of a kelvin, R10 and its       *)
(* standard error in 1e-9 mg CO2 m-2 s-1, temperatures in kelvin.  A       *)
(* float is a tuple, <<>> for NaN and <<v>> for the number v; an optional   *)
(* object is a tuple too, <<>> for None and <<x>> for the object x.        *)
(*                                                                         *)
(* lmfit is a library outside the repository: the result of model.fit is   *)
(* drawn from ModelFit, the results the call of respiration.py:72 admits.  *)
(***************************************************************************)
EXTENDS Integers, Sequences, FiniteSets, TLC

VARIABLES
    data,              \* main: night_data, ordered by timestamp, unique timestamps
    pc,                \* position of main: "estimate", "build", "done", "raised"
    i,                 \* index into model_dates of the date the running comprehension is at
    temp_sensitivity,  \* find_temperature_sensitivity: entries of the dict built so far
    E0,                \* main: temp_sensitivity handed to create_models (<<>> is NaN)
    models,            \* create_models: entries of the dict built so far
    last,              \* history: what the most recent fit_date call did
    g_E0, g_fit, g_ret,        \* fit_respiration called alone: argument, solver result, return
    w_date, w_half, w_out      \* get_window_data called alone: arguments, return

vars == <<data, pc, i, temp_sensitivity, E0, models, last,
          g_E0, g_fit, g_ret, w_date, w_half, w_out>>

-----------------------------------------------------------------------------
(* Bounds of the model *)

MaxDays == 5        \* calendar days spanned by the night series
MaxPerDay == 6      \* observations on a day that has observations
MaxHalfWidth == 3   \* half-widths get_window_data is called with on its own

-----------------------------------------------------------------------------
(* Program constants *)

HoursPerDay == 24
E0_MIN == 500                 \* VARIABLE_BOUNDS["E0"][0] = 50 K
E0_MAX == 5000                \* VARIABLE_BOUNDS["E0"][1] = 500 K
R10_MIN == 100                \* VARIABLE_BOUNDS["R10"][0] = 0.0000001
R10_MAX == 1000000000         \* VARIABLE_BOUNDS["R10"][1] = 1
MIN_DATA_LENGTH == 20
MIN_TEMP_RANGE == 5
RELATIVE_ERROR_LIMIT_NUM == 1 \* RELATIVE_ERROR_LIMIT = 0.5 = 1/2
RELATIVE_ERROR_LIMIT_DEN == 2
RTOL_NUM == 1                 \* rtol = 0.01 = 1/100
RTOL_DEN == 100
ESTIMATE_HALF_WIDTH == 7
FIRST_HALF_WIDTH == 2         \* range(2, 8)
STOP_HALF_WIDTH == 8

VARIABLE_BOUNDS == [E0 |-> <<E0_MIN, E0_MAX>>, R10 |-> <<R10_MIN, R10_MAX>>]

-----------------------------------------------------------------------------
(* Floats and optional values *)

NaN == <<>>
Float(v) == <<v>>
None == <<>>
Some(x) == <<x>>
Abs(x) == IF x < 0 THEN -x ELSE x

\* Python's int | int on non-negative operands
RECURSIVE BitOr(_, _)
BitOr(a, b) ==
    IF a = 0 THEN b
    ELSE IF b = 0 THEN a
    ELSE 2 * BitOr(a \div 2, b \div 2) + (IF a % 2 = 1 \/ b % 2 = 1 THEN 1 ELSE 0)

RECURSIVE SeqMax(_)
SeqMax(s) == IF Len(s) = 1 THEN s[1]
             ELSE LET m == SeqMax(Tail(s)) IN IF s[1] > m THEN s[1] ELSE m

RECURSIVE SeqMin(_)
SeqMin(s) == IF Len(s) = 1 THEN s[1]
             ELSE LET m == SeqMin(Tail(s)) IN IF s[1] < m THEN s[1] ELSE m

\* pandas Series.max() / Series.min(): NaN on an empty series
ColMax(df) == IF Len(df) = 0 THEN NaN ELSE Float(SeqMax([k \in 1..Len(df) |-> df[k].temperature]))
ColMin(df) == IF Len(df) = 0 THEN NaN ELSE Float(SeqMin([k \in 1..Len(df) |-> df[k].temperature]))

-----------------------------------------------------------------------------
(* timeseries.py *)

DateOf(ts) == ts \div HoursPerDay

\* get_window_data with the upper end of the range left out (a fault C9 excludes)
get_window_data_open(df, date, window_half_width_days) ==
    SelectSeq(df, LAMBDA o :
        /\ DateOf(o.ts) >= date - window_half_width_days
        /\ DateOf(o.ts) < date + window_half_width_days)

get_window_data(df, date, window_half_width_days) ==
    SelectSeq(df, LAMBDA o :
        /\ DateOf(o.ts) >= date - window_half_width_days
        /\ DateOf(o.ts) <= date + window_half_width_days)

-----------------------------------------------------------------------------
(* respiration.py: fit_respiration *)

\* Values the solver is let to return (tenths of a kelvin; 1e-9 flux units)
FreeE0Values == {E0_MIN, 2000, 3000, E0_MAX - 20}
E0Errs == {100, 2000}
R10Values == {R10_MIN + 1, 300000000, 995000000}
R10Errs == {0, 200000000}
\* Values of the E0 argument when fit_respiration is called on its own
FixedE0Values == {NaN, Float(E0_MIN + 4), Float(2000), Float(2500), Float(E0_MAX - 20), Float(6000)}

\* lmfit Parameter after the fit
Parameter(value, stderr, vary) == [value |-> value, stderr |-> stderr, vary |-> vary]

\* mdl = model.fit(respiration.values, params, temperature=temperature.values):
\* R10 is free within its bounds; E0 is free within its bounds when the
\* argument is None and is held at the argument otherwise (vary=False).
\* When lmfit estimates error bars every varied parameter gets a standard
\* error and every fixed one gets 0; when it cannot, every stderr is None.
\* success is lmfit's convergence flag.  exc is the exception of the call.
ModelFit(E0_arg) ==
    LET E0s(errorbars) ==
            IF E0_arg = None
            THEN { Parameter(Float(v), IF errorbars THEN Some(e) ELSE None, TRUE) :
                       v \in FreeE0Values, e \in E0Errs }
            ELSE { Parameter(E0_arg[1], IF errorbars THEN Some(0) ELSE None, FALSE) }
        R10s(errorbars) ==
            { Parameter(Float(v), IF errorbars THEN Some(e) ELSE None, TRUE) :
                  v \in R10Values, e \in R10Errs }
        ResultsWith(b) ==
            { [exc |-> "none", success |-> s, errorbars |-> b, E0 |-> pe, R10 |-> pr] :
                  s \in BOOLEAN, pe \in E0s(b), pr \in R10s(b) }
        Results == ResultsWith(TRUE) \cup ResultsWith(FALSE)
\* a fixed E0 of NaN makes the model function return NaN: lmfit either raises
\* ValueError or carries the NaN through, depending on its nan policy
        Raised == [exc |-> "ValueError", success |-> FALSE, errorbars |-> FALSE,
                   E0 |-> Parameter(NaN, None, FALSE), R10 |-> Parameter(NaN, None, TRUE)]
    IN  IF E0_arg = Some(NaN) THEN Results \cup {Raised} ELSE Results

\* for par in mdl.params: make_params() orders them as the model function's arguments
ParamNames == <<"E0", "R10">>

\* stderr / value > RELATIVE_ERROR_LIMIT for one parameter:
\* "TypeError" when stderr is None, FALSE when the value is NaN
RelativeErrorAbove(p) ==
    IF p.stderr = None THEN "TypeError"
    ELSE IF p.value = NaN THEN "False"
    ELSE IF p.stderr[1] * RELATIVE_ERROR_LIMIT_DEN > RELATIVE_ERROR_LIMIT_NUM * p.value[1]
         THEN "True" ELSE "False"

\* any(... for par in mdl.params), left to right, stopping at the first True
RECURSIVE AnyRelativeError(_, _)
AnyRelativeError(mdl, k) ==
    IF k > Len(ParamNames) THEN "False"
    ELSE LET r == RelativeErrorAbove(mdl[ParamNames[k]])
         IN  IF r = "False" THEN AnyRelativeError(mdl, k + 1) ELSE r

\* np.isclose(a, b, rtol=0.01, atol=0): |a - b| <= rtol * |b|, False on NaN
IsClose(a, b) ==
    IF a = NaN THEN FALSE
    ELSE Abs(a[1] - b) <= (RTOL_NUM * Abs(b)) \div RTOL_DEN

\* CloseToBounds looking at the upper bound only (a fault C8 excludes)
CloseToUpperBound(mdl, par) ==
    IsClose(mdl[par].value, VARIABLE_BOUNDS[par][2])

\* np.isclose(mdl.params[par].value, VARIABLE_BOUNDS[par], ...).any()
CloseToBounds(mdl, par) ==
    \E k \in 1..2 : IsClose(mdl[par].value, VARIABLE_BOUNDS[par][k])

AnyCloseToBounds(mdl) ==
    \E k \in 1..Len(ParamNames) : CloseToBounds(mdl, ParamNames[k])

\* The return of fit_respiration for the solver result mdl: exc names the
\* exception that leaves the function, mdl is None or the model, which is
\* kept as its mdl.params (all its callers read)
fit_respiration(mdl) ==
    IF mdl.exc # "none" THEN [exc |-> mdl.exc, mdl |-> None]
    ELSE LET err == AnyRelativeError(mdl, 1)
         IN  IF err = "TypeError" THEN [exc |-> "TypeError", mdl |-> None]
             ELSE IF err = "True" \/ AnyCloseToBounds(mdl) THEN [exc |-> "none", mdl |-> None]
             ELSE [exc |-> "none", mdl |-> Some([E0 |-> mdl.E0, R10 |-> mdl.R10])]

-----------------------------------------------------------------------------
(* respiration.py: find_temperature_sensitivity and create_models *)

\* data.asfreq("D").index.date: pandas reindexes on
\* date_range(index.min(), index.max(), freq="D"), which steps one day at a
\* time from the first timestamp and stops at the last timestamp
model_dates(df) ==
    LET first == df[1].ts
        final == df[Len(df)].ts
    IN  [k \in 1..((final - first) \div HoursPerDay + 1) |->
            DateOf(first + (k - 1) * HoursPerDay)]

\* df["temperature"].max() - df["temperature"].min() < MIN_TEMP_RANGE,
\* False when the window is empty (NaN - NaN < 5)
TempRangeBelow(df) ==
    IF ColMax(df) = NaN \/ ColMin(df) = NaN THEN FALSE
    ELSE ColMax(df)[1] - ColMin(df)[1] < MIN_TEMP_RANGE

\* EstimateSkips without the length test (a fault C3 excludes)
EstimateSkipsOnRange(df) == TempRangeBelow(df)

\* len(df) < MIN_DATA_LENGTH | (range < MIN_TEMP_RANGE): in Python | binds
\* tighter than <, so the length is compared with 20 | bool
EstimateSkips(df) ==
    Len(df) < BitOr(MIN_DATA_LENGTH, IF TempRangeBelow(df) THEN 1 ELSE 0)

\* find_temperature_sensitivity.fit_date once its window passed the check:
\* the float it returns for the return ret of fit_respiration
EstimateValue(ret) == IF ret.mdl = None THEN NaN ELSE ret.mdl[1].E0.value

\* HalfWidthsTried going on to the widest window (a fault C2 excludes)
HalfWidthsTriedToEnd(df, date, h) ==
    [k \in 1..(STOP_HALF_WIDTH - h) |-> h + k - 1]

\* create_models.fit_date: the half-widths whose window is extracted, in
\* order; the loop ends at the first window with enough data
RECURSIVE HalfWidthsTried(_, _, _)
HalfWidthsTried(df, date, h) ==
    IF h >= STOP_HALF_WIDTH THEN <<>>
    ELSE IF Len(get_window_data(df, date, h)) >= MIN_DATA_LENGTH THEN <<h>>
    ELSE <<h>> \o HalfWidthsTried(df, date, h + 1)

\* whether the loop of create_models.fit_date reached a fit
BuildFits(df, date) ==
    LET tried == HalfWidthsTried(df, date, FIRST_HALF_WIDTH)
    IN  /\ tried # <<>>
        /\ Len(get_window_data(df, date, tried[Len(tried)])) >= MIN_DATA_LENGTH

\* k-th smallest of the values of f (1-based)
KthSmallest(f, k) ==
    CHOOSE v \in {f[d] : d \in DOMAIN f} :
        /\ Cardinality({d \in DOMAIN f : f[d] < v}) < k
        /\ k <= Cardinality({d \in DOMAIN f : f[d] <= v})

\* pd.Series(ts).median(): NaN entries are skipped, NaN when nothing is left.
\* (The solver's E0 values are multiples of 10, so the mean of two is exact.)
Median(ts) ==
    LET kept == {d \in DOMAIN ts : ts[d] # NaN}
        f == [d \in kept |-> ts[d][1]]
        n == Cardinality(kept)
    IN  IF n = 0 THEN NaN
        ELSE IF n % 2 = 1 THEN Float(KthSmallest(f, (n + 1) \div 2))
        ELSE Float((KthSmallest(f, n \div 2) + KthSmallest(f, n \div 2 + 1)) \div 2)

-----------------------------------------------------------------------------
(* The night series main() hands over *)

PerDayChoices == (MaxPerDay - 1)..MaxPerDay
TempSteps == {0, 2}

\* ndays calendar days, perday hourly observations on each day but the day
\* gap (gap = 0: no gap), the temperature rising by step kelvin a day; the
\* first day's observations are its last hours when late, its first otherwise
Series(ndays, perday, gap, step, late) ==
    LET days == SelectSeq([d \in 1..ndays |-> d], LAMBDA d : d # gap)
    IN  [j \in 1..(Len(days) * perday) |->
            LET d == days[(j - 1) \div perday + 1]
                k == (j - 1) % perday
                hour == IF late /\ d = 1 THEN HoursPerDay - perday + k ELSE k
            IN  [ts |-> d * HoursPerDay + hour,
                 temperature |-> 280 + step * d]]

NightSeries ==
    { Series(nd, n, gap, step, late) :
        nd \in 1..MaxDays, n \in PerDayChoices, gap \in {0} \cup 2..(MaxDays - 1),
        step \in TempSteps, late \in BOOLEAN }

-----------------------------------------------------------------------------
(* State *)

NoCall == [phase |-> "none", date |-> 0, tried |-> <<>>, fits |-> <<>>,
           solver |-> "none", ret |-> [exc |-> "none", mdl |-> None]]

\* what the solver did, as the code could tell from mdl
SolverState(mdl) ==
    IF mdl.exc # "none" THEN "raised"
    ELSE IF ~mdl.errorbars THEN "no_stderr"
    ELSE IF ~mdl.success THEN "unconverged"
    ELSE "converged"

\* fit_respiration(df["nee"], df["temperature"], E0): every solver state and
\* return the call can end in
FitOutcomes(E0_arg) ==
    { [solver |-> SolverState(mdl), ret |-> fit_respiration(mdl)] : mdl \in ModelFit(E0_arg) }

IdleGate == /\ g_E0 = None /\ g_fit = None /\ g_ret = None
IdleWindow == /\ w_date = 0 /\ w_half = 0 /\ w_out = None
IdleMain == /\ i = 1 /\ temp_sensitivity = <<>> /\ E0 = NaN /\ models = <<>> /\ last = NoCall

Init ==
    /\ data \in NightSeries
    /\ pc = "estimate"
    /\ i = 1
    /\ temp_sensitivity = <<>>
    /\ E0 = NaN
    /\ models = <<>>
    /\ last = NoCall
    /\ IdleGate /\ IdleWindow

\* find_temperature_sensitivity: one step of {d: fit_date(d) for d in model_dates}
EstimateDate ==
    /\ pc = "estimate"
    /\ i <= Len(model_dates(data))
    /\ LET date == model_dates(data)[i]
           df == get_window_data(data, date, ESTIMATE_HALF_WIDTH)
           call == [NoCall EXCEPT !.phase = "estimate", !.date = date,
                                  !.tried = <<ESTIMATE_HALF_WIDTH>>]
       IN  IF EstimateSkips(df)
           THEN /\ temp_sensitivity' = (date :> NaN) @@ temp_sensitivity
                /\ last' = call
                /\ i' = i + 1
                /\ pc' = pc
           ELSE \E out \in FitOutcomes(None) :
                LET ret == out.ret
                IN  /\ last' = [call EXCEPT !.fits = <<ESTIMATE_HALF_WIDTH>>,
                                            !.solver = out.solver, !.ret = ret]
                    /\ IF ret.exc # "none"
                       THEN /\ pc' = "raised"
                            /\ UNCHANGED <<temp_sensitivity, i>>
                       ELSE /\ temp_sensitivity' = (date :> EstimateValue(ret)) @@ temp_sensitivity
                            /\ i' = i + 1
                            /\ pc' = pc
    /\ UNCHANGED <<data, E0, models, g_E0, g_fit, g_ret, w_date, w_half, w_out>>

\* find_temperature_sensitivity returns the median (and the standard
\* deviation, which main never reads); main passes it on to create_models.
\* The dict is local to the call and is gone with it.
EstimateReturn ==
    /\ pc = "estimate"
    /\ i > Len(model_dates(data))
    /\ E0' = Median(temp_sensitivity)
    /\ pc' = "build"
    /\ i' = 1
    /\ temp_sensitivity' = <<>>
    /\ last' = NoCall
    /\ UNCHANGED <<data, models, g_E0, g_fit, g_ret, w_date, w_half, w_out>>

\* create_models: one step of {d: fit_date(d) for d in model_dates}
BuildDate ==
    /\ pc = "build"
    /\ i <= Len(model_dates(data))
    /\ LET date == model_dates(data)[i]
           tried == HalfWidthsTried(data, date, FIRST_HALF_WIDTH)
           call == [NoCall EXCEPT !.phase = "build", !.date = date, !.tried = tried]
       IN  IF ~BuildFits(data, date)
           THEN /\ models' = (date :> None) @@ models
                /\ last' = call
                /\ i' = i + 1
                /\ pc' = pc
           ELSE \E out \in FitOutcomes(Some(E0)) :
                LET ret == out.ret
                IN  /\ last' = [call EXCEPT !.fits = <<tried[Len(tried)]>>,
                                            !.solver = out.solver, !.ret = ret]
                    /\ IF ret.exc # "none"
                       THEN /\ pc' = "raised"
                            /\ UNCHANGED <<models, i>>
                       ELSE /\ models' = (date :> ret.mdl) @@ models
                            /\ i' = i + 1
                            /\ pc' = pc
    /\ UNCHANGED <<data, E0, temp_sensitivity, g_E0, g_fit, g_ret, w_date, w_half, w_out>>

\* create_models returns resp_models to main, which goes on to read the R10
\* of every model and interpolate it over the dates
BuildReturn ==
    /\ pc = "build"
    /\ i > Len(model_dates(data))
    /\ pc' = "done"
    /\ UNCHANGED <<data, i, E0, temp_sensitivity, models, last,
                   g_E0, g_fit, g_ret, w_date, w_half, w_out>>

Next == EstimateDate \/ EstimateReturn \/ BuildDate \/ BuildReturn

Spec == Init /\ [][Next]_vars

-----------------------------------------------------------------------------
(* fit_respiration called on its own, for any E0 argument *)

InitGate ==
    /\ pc = "fit_respiration"
    /\ data = <<>>
    /\ IdleMain /\ IdleWindow
    /\ g_E0 \in {None} \cup {Some(v) : v \in FixedE0Values}
    /\ g_fit = None
    /\ g_ret = None

FitRespiration ==
    /\ pc = "fit_respiration"
    /\ g_ret = None
    /\ \E mdl \in ModelFit(g_E0) :
        /\ g_fit' = Some(mdl)
        /\ g_ret' = Some(fit_respiration(mdl))
    /\ UNCHANGED <<data, pc, i, temp_sensitivity, E0, models, last, g_E0,
                   w_date, w_half, w_out>>

NextGate == FitRespiration

SpecGate == InitGate /\ [][NextGate]_vars

-----------------------------------------------------------------------------
(* get_window_data called on its own, for any date and half-width *)

InitWindow ==
    /\ pc = "get_window_data"
    /\ data \in NightSeries \cup {<<>>}
    /\ IdleMain /\ IdleGate
    /\ w_date \in (0 - MaxHalfWidth)..(MaxDays + 1 + MaxHalfWidth)
    /\ w_half \in 0..MaxHalfWidth
    /\ w_out = None

GetWindowData ==
    /\ pc = "get_window_data"
    /\ w_out = None
    /\ w_out' = Some(get_window_data(data, w_date, w_half))
    /\ UNCHANGED <<data, pc, i, temp_sensitivity, E0, models, last,
                   g_E0, g_fit, g_ret, w_date, w_half>>

NextWindow == GetWindowData

SpecWindow == InitWindow /\ [][NextWindow]_vars

-----------------------------------------------------------------------------
(* Properties *)

\* observations of data (by index) dated within h days of date d
Near(d, h) == {k \in 1..Len(data) : Abs(DateOf(data[k].ts) - d) <= h}

\* difference of the highest and the lowest temperature among them
Spread(d, h) ==
    LET hot == CHOOSE k \in Near(d, h) :
                   \A l \in Near(d, h) : data[l].temperature <= data[k].temperature
        cold == CHOOSE k \in Near(d, h) :
                   \A l \in Near(d, h) : data[l].temperature >= data[k].temperature
    IN  data[hot].temperature - data[cold].temperature

\* half-widths 2..7 whose window holds at least 20 observations
Adequate(d) == {h \in 2..7 : Cardinality(Near(d, h)) >= 20}

Least(S) == CHOOSE h \in S : \A g \in S : h <= g

\* R10 of a solver result lies within 1% of 1e-7 or of 1
R10AtBound(mdl) ==
    /\ mdl.R10.value # NaN
    /\ \/ Abs(mdl.R10.value[1] - 100) <= 1
       \/ Abs(mdl.R10.value[1] - 1000000000) <= 10000000

\* the relative standard error of R10 is above 0.5
R10Uncertain(mdl) ==
    /\ mdl.R10.stderr # None
    /\ mdl.R10.value # NaN
    /\ 2 * mdl.R10.stderr[1] > mdl.R10.value[1]

\* C1: in the estimator, a date whose 7-day window has a temperature range
\* below 5 K is marked NaN and the fitter is not invoked, however many
\* observations the window holds.
C1_SmallRangeNeverFitted ==
    (/\ last.phase = "estimate"
     /\ Near(last.date, 7) # {}
     /\ Spread(last.date, 7) < 5)
    => /\ last.fits = <<>>
       /\ temp_sensitivity[last.date] = NaN

\* C2: in the builder, the half-widths 2..7 are tried in increasing order up
\* to the smallest one whose window holds at least 20 observations, the
\* fitter is invoked at most once, on that window, nothing wider is tried
\* afterwards, and what that fit returned (a model, or None on a quality
\* rejection) is what the date records.
C2_NarrowestAdequateWindow ==
    last.phase = "build" =>
        LET stop == IF Adequate(last.date) = {} THEN 7 ELSE Least(Adequate(last.date))
        IN  /\ last.tried = [k \in 1..(stop - 1) |-> k + 1]
            /\ Len(last.fits) <= 1
            /\ Adequate(last.date) # {} => last.fits = <<stop>>
            /\ (last.fits # <<>> /\ last.ret.exc = "none")
                   => /\ last.date \in DOMAIN models
                      /\ models[last.date] = last.ret.mdl

C2_Witness ==
    /\ last.phase = "build"
    /\ Cardinality(Near(last.date, 2)) = 15
    /\ last.tried = <<2, 3>>
    /\ last.fits = <<3>>
    /\ last.solver = "converged"
    /\ last.ret.exc = "none"
    /\ models[last.date] = None

\* C3: the fitter is never invoked on a window of fewer than 20
\* observations: the estimator marks a date NaN without a fit when its 7-day
\* window is that small, the builder records None without a fit when every
\* half-width 2..7 gives a window that small.
C3_NoFitBelowMinimum ==
    /\ \A k \in 1..Len(last.fits) : Cardinality(Near(last.date, last.fits[k])) >= 20
    /\ (last.phase = "estimate" /\ Cardinality(Near(last.date, 7)) < 20)
           => /\ last.fits = <<>>
              /\ temp_sensitivity[last.date] = NaN
    /\ (last.phase = "build" /\ Adequate(last.date) = {})
           => /\ last.fits = <<>>
              /\ models[last.date] = None

C3_Witness ==
    /\ last.phase = "estimate"
    /\ Cardinality(Near(last.date, 7)) \in 1..19
    /\ Spread(last.date, 7) >= 5
    /\ last.fits = <<>>
    /\ temp_sensitivity[last.date] = NaN

\* C4: with E0 supplied as a fixed value, fit_respiration accepts or rejects
\* on the fitted R10 alone (its relative standard error and its distance to
\* the R10 bounds), whatever the fixed E0 is.
C4_FixedE0NotGated ==
    (/\ g_ret # None
     /\ g_E0 # None
     /\ g_fit[1].errorbars)
    => /\ g_ret[1].exc = "none"
       /\ (g_ret[1].mdl = None) <=> (R10Uncertain(g_fit[1]) \/ R10AtBound(g_fit[1]))

\* C5: when no date of the estimator gave an accepted fit, the run raises an
\* error: NaN is neither returned as the summary nor handed to the builder.
C5_NoNaNSensitivityToBuilder ==
    pc \in {"build", "done"} => E0 # NaN

\* C6: the estimator and the builder each make exactly one entry for every
\* calendar date from the date of the first observation to the date of the
\* last one, whatever the times of day of the two.
C6_EveryCalendarDate ==
    LET dates == DateOf(data[1].ts)..DateOf(data[Len(data)].ts)
    IN  /\ (pc = "estimate" /\ i > Len(model_dates(data)))
               => DOMAIN temp_sensitivity = dates
        /\ pc = "done" => DOMAIN models = dates

\* C7: a solver failure on a date (no convergence, or no standard error)
\* is recorded as a missing value for that date, like a quality rejection,
\* and no exception leaves the run.
C7_SolverFailureIsMissing ==
    last.solver \in {"unconverged", "no_stderr"}
    => /\ last.ret.exc = "none"
       /\ last.ret.mdl = None
       /\ pc # "raised"

\* C8: a fit whose R10 lies within 1% of either R10 bound is rejected
\* (fit_respiration returns None), whatever number its standard error is,
\* zero included.
C8_BoundaryRejected ==
    (/\ g_ret # None
     /\ g_fit[1].R10.stderr # None
     /\ R10AtBound(g_fit[1]))
    => g_ret[1] = [exc |-> "none", mdl |-> None]

C8_Witness ==
    /\ g_ret # None
    /\ g_fit[1].success
    /\ g_fit[1].R10.stderr = Some(0)
    /\ g_fit[1].R10.value = Float(101)
    /\ g_fit[1].E0.value = Float(2000)
    /\ g_E0 = Some(Float(2000))
    /\ g_ret[1] = [exc |-> "none", mdl |-> None]

\* C9: get_window_data returns exactly the observations dated from
\* center - h to center + h, both ends included, in the order of the series,
\* and an empty window when there is none.
C9_WindowIsDateRange ==
    w_out # None =>
        LET w == w_out[1]
        IN  /\ \A k \in 1..Len(w) :
                   /\ \E j \in 1..Len(data) : data[j] = w[k]
                   /\ w_date - w_half <= DateOf(w[k].ts)
                   /\ DateOf(w[k].ts) <= w_date + w_half
            /\ \A j \in Near(w_date, w_half) : \E k \in 1..Len(w) : w[k] = data[j]
            /\ \A k \in 1..Len(w) : \A l \in 1..Len(w) : k < l => w[k].ts < w[l].ts

C9_Witness ==
    /\ w_out # None
    /\ w_half = 1
    /\ w_out[1] # <<>>
    /\ Len(w_out[1]) < Len(data)
    /\ DateOf(w_out[1][1].ts) = w_date - w_half
    /\ DateOf(w_out[1][Len(w_out[1])].ts) = w_date + w_half

====
